---- MODULE Spec2Model ----
(***************************************************************************)
(* Model of tts.py, the batch text-to-speech lesson builder.               *)
(*                                                                         *)
(* Strings are sequences of symbols.  Text that comes from the CSV file is *)
(* spelled one character per symbol; literals of the program that cannot   *)
(* occur in that text (directory names, file extensions, markup tags) are  *)
(* one symbol each.  String concatenation is \o.                           *)
(*                                                                         *)
(* The file system is a function from paths to contents.  The content of   *)
(* an audio file is the sequence of sound segments it plays; the content   *)
(* of a concat list is its sequence of lines.                              *)
(***************************************************************************)
EXTENDS Integers, Sequences, FiniteSets, TLC

VARIABLES
    mode,            \* args.mode
    verbose,         \* args.verbose
    voices,          \* voice ids, engines and speed from the command line
    input,           \* rows of the CSV file, each a sequence of columns
    stale,           \* TRUE iff a previous run left its output directory
    pc,              \* position of main()
    rowIdx,          \* index of the row being processed (0 before the first)
    step,            \* index of the next call inside the current phase
    dirs,            \* directories that exist
    fs,              \* files that exist: path -> content
    silence,         \* silence file names returned so far
    wavs,            \* clip file names returned by text_to_wav for this row
    pyramid_phrases, \* cumulative phrases of the current pyramid row
    synthCalls,      \* create_pcm_from_ssml calls made for this row
    rowLog,          \* combine_audio_files_to_mp3 calls made for this row
    mp3Requests,     \* every output path handed to convert_wav_to_mp3
    failures,        \* external commands that have failed so far
    rowFailures,     \* external commands that have failed for this row
    exitStatus       \* "running", 0 (normal end) or 1 (uncaught exception)

vars == <<mode, verbose, voices, input, stale, pc, rowIdx, step, dirs, fs,
          silence, wavs, pyramid_phrases, synthCalls, rowLog, mp3Requests,
          failures, rowFailures, exitStatus>>

(***************************************************************************)
(* Bounds of the model                                                     *)
(***************************************************************************)
MaxRows == 2
MaxFailures == 1

(***************************************************************************)
(* Program constants                                                       *)
(***************************************************************************)
output_dir == "_TTS-Output/"
template_0_dir == "FW-EW/"
template_1_dir == "EW-FW/"
template_2_dir == "FW-EW-FP-EP/"
template_3_dir == "EW-FW-EP-FP/"
template_4_dir == "EP/"
template_5_dir == "FP/"
template_6_dir == "FP+Pause/"
template_7_dir == "FP+Pause (Slow)/"
template_8_dir == "Pyramid/"
workspace_dir == "_Workspace/"
SlowSpeed == 80
DefaultSpeed == 100
RequiredColumns == 5
TemplateCount == 8

Sep == <<" ", "-", " ">>

(***************************************************************************)
(* String helpers                                                          *)
(***************************************************************************)
\* the first index at which old occurs in s, or 0
FirstOccurrence(s, old) ==
    LET at == {i \in 1..(Len(s) - Len(old) + 1) :
                  s[i] = old[1] /\ SubSeq(s, i, i + Len(old) - 1) = old}
    IN  IF at = {} THEN 0 ELSE CHOOSE i \in at : \A j \in at : i <= j

\* str.replace(old, new) for a non-empty old: every non-overlapping
\* occurrence, left to right
RECURSIVE Replace(_, _, _)
Replace(s, old, new) ==
    LET i == FirstOccurrence(s, old)
    IN  IF i = 0 THEN s
        ELSE SubSeq(s, 1, i - 1) \o new
                \o Replace(SubSeq(s, i + Len(old), Len(s)), old, new)

Digits == <<"0", "1", "2", "3", "4", "5", "6", "7", "8", "9">>

\* str(n) for n >= 0
RECURSIVE IntToStr(_)
IntToStr(n) ==
    IF n < 10 THEN <<Digits[n + 1]>>
    ELSE IntToStr(n \div 10) \o <<Digits[(n % 10) + 1]>>

\* sep.join(parts)
RECURSIVE Join(_, _)
Join(parts, sep) ==
    IF Len(parts) = 0 THEN <<>>
    ELSE IF Len(parts) = 1 THEN parts[1]
    ELSE parts[1] \o sep \o Join(Tail(parts), sep)

\* the concatenation of a sequence of sequences
RECURSIVE ConcatAll(_)
ConcatAll(ss) == IF Len(ss) = 0 THEN <<>> ELSE Head(ss) \o ConcatAll(Tail(ss))

\* files with one file written (created or overwritten)
WriteFile(files, name, content) == (name :> content) @@ files

\* files with one file removed
RemoveFile(files, name) == [f \in DOMAIN files \ {name} |-> files[f]]

(***************************************************************************)
(* Sound segments: what an audio file plays                                *)
(***************************************************************************)
Speech(voice_id, engine, ssml) == <<"speech", voice_id, engine, ssml>>
Silence(seconds) == <<"silence", "", "", <<seconds>>>>

(***************************************************************************)
(* External commands.  Each takes the outcome `ok` of the command: the     *)
(* program never looks at the exit status, so a failed command leaves the  *)
(* files as they were and the program goes on.                             *)
(***************************************************************************)
\* aws polly synthesize-speech ... filename
create_pcm_from_ssml(files, voice_id, engine, ssml, filename, ok) ==
    IF ok THEN WriteFile(files, filename, <<Speech(voice_id, engine, ssml)>>)
    ELSE files

\* the name convert_pcm_to_wav returns
wav_filename(input_filename) == Replace(input_filename, <<".pcm">>, <<".wav">>)

\* ffmpeg -y -f s16le ... -i input output succeeds
pcm_to_wav_ok(files, input_filename, ok) == ok /\ input_filename \in DOMAIN files

\* ffmpeg -y -f s16le ... -i input output
convert_pcm_to_wav(files, input_filename, ok) ==
    IF pcm_to_wav_ok(files, input_filename, ok)
    THEN WriteFile(files, wav_filename(input_filename), files[input_filename])
    ELSE files

\* the SSML payload text_to_wav builds
ssml_text(text, speed) ==
    <<"<speak>", "<prosody rate='">> \o IntToStr(speed) \o <<"%'>">>
        \o text \o <<"</prosody>", "</speak>">>

\* the PCM file name text_to_wav builds
pcm_filename(voice_id, text, speed) ==
    <<output_dir, workspace_dir, voice_id>> \o Sep \o text \o Sep
        \o IntToStr(speed) \o <<".pcm">>

\* the file name text_to_wav returns
text_to_wav(voice_id, text, speed) == wav_filename(pcm_filename(voice_id, text, speed))

\* the files after text_to_wav: synthesis, then PCM to WAV
text_to_wav_files(files, voice_id, engine, text, speed, ok1, ok2) ==
    convert_pcm_to_wav(
        create_pcm_from_ssml(files, voice_id, engine, ssml_text(text, speed),
                             pcm_filename(voice_id, text, speed), ok1),
        pcm_filename(voice_id, text, speed), ok2)

\* how many of the two commands of text_to_wav failed
text_to_wav_failed(files, voice_id, engine, text, speed, ok1, ok2) ==
    (IF ok1 THEN 0 ELSE 1) +
    (IF pcm_to_wav_ok(
            create_pcm_from_ssml(files, voice_id, engine, ssml_text(text, speed),
                                 pcm_filename(voice_id, text, speed), ok1),
            pcm_filename(voice_id, text, speed), ok2)
     THEN 0 ELSE 1)

\* the file name create_silent_wav_file returns
silence_filename(seconds) ==
    <<output_dir, workspace_dir, "silence_", seconds, "s", ".wav">>

\* ffmpeg -y -f lavfi -i anullsrc ... -t seconds filename
create_silent_wav_file(files, seconds, ok) ==
    IF ok THEN WriteFile(files, silence_filename(seconds), <<Silence(seconds)>>)
    ELSE files

\* quoting of a file name for ffmpeg's concat list
EscapeFilename(filename) == Replace(filename, <<"'">>, <<"'", "\\", "'", "'">>)

\* the lines concat_wav_files writes to the concat list
concat_list(audio_files) ==
    [i \in 1..Len(audio_files) |->
        <<"file '">> \o EscapeFilename(audio_files[i]) \o <<"'\n">>]

\* the name of the concat list file: the output name without the workspace
\* prefix, .wav replaced by .txt
concat_list_filename(output_filename) ==
    Replace(Replace(output_filename, <<output_dir, workspace_dir>>, <<>>),
            <<".wav">>, <<".txt">>)

\* ffmpeg's reading of one line of a concat list: file '<quoted name>'
ParseConcatLine(line) ==
    Replace(SubSeq(line, 2, Len(line) - 1), <<"'", "\\", "'", "'">>, <<"'">>)

\* the files a concat list names, in order
concat_inputs(lines) == [i \in 1..Len(lines) |-> ParseConcatLine(lines[i])]

\* ffmpeg -y -f concat -safe 0 -i list -c copy output succeeds
concat_ok(files, lines, ok) ==
    LET inputs == concat_inputs(lines)
    IN  /\ ok
        /\ Len(lines) > 0
        /\ \A i \in 1..Len(inputs) : inputs[i] \in DOMAIN files

\* the files after concat_wav_files: the list is written, ffmpeg runs, the
\* list is removed unless verbose
concat_wav_files(files, audio_files, output_filename, ok, keep_list) ==
    LET lines    == concat_list(audio_files)
        listed   == WriteFile(files, concat_list_filename(output_filename), lines)
        inputs   == concat_inputs(lines)
        combined == IF concat_ok(listed, lines, ok)
                    THEN WriteFile(listed, output_filename,
                             ConcatAll([i \in 1..Len(inputs) |-> listed[inputs[i]]]))
                    ELSE listed
    IN  IF keep_list THEN combined
        ELSE RemoveFile(combined, concat_list_filename(output_filename))

\* ffmpeg -i input output succeeds; without -y an existing output is only
\* replaced when the overwrite question is answered yes
wav_to_mp3_ok(files, input_filename, output_filename, ok, overwrite) ==
    /\ ok
    /\ input_filename \in DOMAIN files
    /\ (output_filename \in DOMAIN files => overwrite)

\* ffmpeg -i input output
convert_wav_to_mp3(files, input_filename, output_filename, ok, overwrite) ==
    IF wav_to_mp3_ok(files, input_filename, output_filename, ok, overwrite)
    THEN WriteFile(files, output_filename, files[input_filename])
    ELSE files

\* the intermediate WAV and the output MP3 of combine_audio_files_to_mp3
combined_wav_filename(filename_format) ==
    <<output_dir, workspace_dir>> \o filename_format \o <<".wav">>
combined_mp3_filename(filename_format, template_dir) ==
    <<output_dir, template_dir>> \o filename_format \o <<".mp3">>

(***************************************************************************)
(* Inputs                                                                  *)
(***************************************************************************)
\* rows of a CSV file: sequence number, then FW, EW, FP, EP (lessons) or the
\* phrase pieces (pyramid)
RowA == << <<"1">>, <<"a">>, <<"b">>, <<"a">>, <<"c", " ", "d">> >>
RowB == << <<"2">>, <<"a">>, <<>>, <<"b">> >>
RowC == << <<"1", "2">>, <<"x", "'">>, <<"x", "'">>, <<"a", " ", "-", " ", "b">>, <<"c", "<">>, <<>> >>
RowPool == {RowA, RowB, RowC}

RECURSIVE SeqsUpTo(_, _)
SeqsUpTo(S, n) ==
    IF n = 0 THEN {<<>>}
    ELSE SeqsUpTo(S, n - 1) \cup
         {Append(q, x) : q \in {r \in SeqsUpTo(S, n - 1) : Len(r) = n - 1}, x \in S}

Inputs == SeqsUpTo(RowPool, MaxRows)

\* command lines: the defaults with --foreign_voice Lupe, and one voice used
\* for both languages with different engines at -s 80
VoiceConfigs ==
    { [foreign_voice_id |-> "Lupe", foreign_voice_engine |-> "standard",
       english_voice_id |-> "Joanna", english_voice_engine |-> "standard",
       voice_speed |-> DefaultSpeed],
      [foreign_voice_id |-> "Lupe", foreign_voice_engine |-> "neural",
       english_voice_id |-> "Lupe", english_voice_engine |-> "standard",
       voice_speed |-> SlowSpeed] }

\* the outcomes an external command may have once n commands have failed
Outcomes(n) == IF n < MaxFailures THEN BOOLEAN ELSE {TRUE}

(***************************************************************************)
(* Directories                                                             *)
(***************************************************************************)
template_dirs ==
    <<template_0_dir, template_1_dir, template_2_dir, template_3_dir,
      template_4_dir, template_5_dir, template_6_dir, template_7_dir,
      template_8_dir>>

WorkspacePath == <<output_dir, workspace_dir>>

\* the directories create_output_directories makes
OutputDirectories ==
    {<<output_dir>>, WorkspacePath}
        \cup {<<output_dir, template_dirs[i]>> : i \in 1..Len(template_dirs)}

IsUnder(path, dir) == Len(path) >= Len(dir) /\ SubSeq(path, 1, Len(dir)) = dir

\* shutil.rmtree(dir) on the files
rmtree_files(files, dir) ==
    [f \in {g \in DOMAIN files : ~IsUnder(g, dir)} |-> files[f]]

\* shutil.rmtree(dir) on the directories
rmtree_dirs(ds, dir) == {d \in ds : ~IsUnder(d, dir)}

NoFiles == [f \in {} |-> <<>>]

\* what a previous run left behind: its directories, one lesson and one clip
StaleFiles ==
    WriteFile(
        WriteFile(NoFiles, <<output_dir, template_5_dir, "1", " ", "-", " ", "a", ".mp3">>,
                  <<Silence("1.0")>>),
        <<output_dir, workspace_dir, "Lupe", " ", "-", " ", "a", " ", "-", " ",
          "1", "0", "0", ".wav">>,
        <<Silence("1.0")>>)

Init ==
    /\ mode \in {"lessons", "pyramid"}
    /\ verbose \in BOOLEAN
    /\ voices \in VoiceConfigs
    /\ input \in Inputs
    /\ stale \in BOOLEAN
    /\ pc = "start"
    /\ rowIdx = 0
    /\ step = 0
    /\ dirs = IF stale THEN OutputDirectories ELSE {}
    /\ fs = IF stale THEN StaleFiles ELSE NoFiles
    /\ silence = <<>>
    /\ wavs = <<>>
    /\ pyramid_phrases = <<>>
    /\ synthCalls = <<>>
    /\ rowLog = <<>>
    /\ mp3Requests = <<>>
    /\ failures = 0
    /\ rowFailures = 0
    /\ exitStatus = "running"

\* main, lines 645: create_output_directories()
CreateOutputDirectories ==
    /\ pc = "start"
    /\ dirs' = rmtree_dirs(dirs, <<output_dir>>) \cup OutputDirectories
    /\ fs' = rmtree_files(fs, <<output_dir>>)
    /\ stale' = FALSE
    /\ pc' = "silence"
    /\ step' = 1
    /\ UNCHANGED <<rowFailures, mode, verbose, voices, input, rowIdx, silence, wavs,
                   pyramid_phrases, synthCalls, rowLog, mp3Requests, failures,
                   exitStatus>>

\* the durations lessons_from_csv and pyramid_from_csv ask silence for
SilenceSeconds == IF mode = "lessons" THEN <<"1.0", "1.5", "4">> ELSE <<"1.0">>

\* one create_silent_wav_file call at the top of lessons_from_csv or
\* pyramid_from_csv
CreateSilence ==
    /\ pc = "silence"
    /\ \E ok \in Outcomes(failures) :
        /\ fs' = create_silent_wav_file(fs, SilenceSeconds[step], ok)
        /\ failures' = failures + (IF ok THEN 0 ELSE 1)
    /\ silence' = Append(silence, silence_filename(SilenceSeconds[step]))
    /\ IF step = Len(SilenceSeconds)
       THEN pc' = "rows" /\ step' = 0
       ELSE pc' = pc /\ step' = step + 1
    /\ UNCHANGED <<rowFailures, mode, verbose, voices, input, stale, rowIdx, dirs, wavs,
                   pyramid_phrases, synthCalls, rowLog, mp3Requests, exitStatus>>

short_silence_file == silence[1]
medium_silence_file == silence[2]
long_silence_file == silence[3]

(***************************************************************************)
(* Lesson mode: lessons_from_csv                                           *)
(***************************************************************************)
\* the row the loop is at
row == input[rowIdx]

\* row[0] .. row[4] of the code
phrase_number(r) == r[1]
foreign_word_text(r) == r[2]
\* slip: the English word is read from the foreign word's column
english_word_text_wrong_column(r) == r[2]
english_word_text(r) == r[3]
foreign_phrase_text(r) == r[4]
\* slip: the English phrase is read from the last column of the row
english_phrase_text_last_column(r) == r[Len(r)]
english_phrase_text(r) == r[5]

\* the arguments of the k-th text_to_wav call for a row (lines 359-371)
LessonCall(k, r) ==
    CASE k = 1 -> [voice_id |-> voices.foreign_voice_id,
                   engine |-> voices.foreign_voice_engine,
                   text |-> foreign_word_text(r), speed |-> voices.voice_speed]
      [] k = 2 -> [voice_id |-> voices.english_voice_id,
                   engine |-> voices.english_voice_engine,
                   text |-> english_word_text(r), speed |-> voices.voice_speed]
      [] k = 3 -> [voice_id |-> voices.foreign_voice_id,
                   engine |-> voices.foreign_voice_engine,
                   text |-> foreign_phrase_text(r), speed |-> voices.voice_speed]
      [] k = 4 -> [voice_id |-> voices.foreign_voice_id,
                   engine |-> voices.foreign_voice_engine,
                   text |-> foreign_phrase_text(r), speed |-> SlowSpeed]
      [] k = 5 -> [voice_id |-> voices.english_voice_id,
                   engine |-> voices.english_voice_engine,
                   text |-> english_phrase_text(r), speed |-> voices.voice_speed]

LessonCallCount == 5

\* the record of one create_pcm_from_ssml call
SynthCall(c) ==
    [voice_id |-> c.voice_id, engine |-> c.engine, speed |-> c.speed,
     text |-> c.text, ssml |-> ssml_text(c.text, c.speed),
     filename |-> pcm_filename(c.voice_id, c.text, c.speed)]

\* the for loop of lessons_from_csv is exhausted: back in main
EndOfInput ==
    /\ pc = "rows"
    /\ rowIdx = Len(input)
    /\ pc' = "cleanup"
    /\ UNCHANGED <<rowFailures, mode, verbose, voices, input, stale, rowIdx, step, dirs, fs,
                   silence, wavs, pyramid_phrases, synthCalls, rowLog,
                   mp3Requests, failures, exitStatus>>

\* lines 346-353: the next row is read and its five columns are assigned
ReadRow ==
    /\ pc = "rows"
    /\ mode = "lessons"
    /\ rowIdx < Len(input)
    /\ Len(input[rowIdx + 1]) >= RequiredColumns
    /\ rowIdx' = rowIdx + 1
    /\ pc' = "clips"
    /\ step' = 1
    /\ wavs' = <<>>
    /\ synthCalls' = <<>>
    /\ rowLog' = <<>>
    /\ rowFailures' = 0
    /\ UNCHANGED <<mode, verbose, voices, input, stale, dirs, fs, silence,
                   pyramid_phrases, mp3Requests, failures, exitStatus>>

\* lines 349-353 on a row with fewer than five columns: row[k] raises
\* IndexError, which nothing catches
ReadRowIndexError ==
    /\ pc = "rows"
    /\ mode = "lessons"
    /\ rowIdx < Len(input)
    /\ Len(input[rowIdx + 1]) < RequiredColumns
    /\ rowIdx' = rowIdx + 1
    /\ pc' = "crashed"
    /\ exitStatus' = 1
    /\ wavs' = <<>>
    /\ synthCalls' = <<>>
    /\ rowLog' = <<>>
    /\ rowFailures' = 0
    /\ UNCHANGED <<mode, verbose, voices, input, stale, step, dirs, fs, silence,
                   pyramid_phrases, mp3Requests, failures>>

\* one of the five text_to_wav calls of lines 359-371
TextToWav ==
    /\ pc = "clips"
    /\ LET c == LessonCall(step, row) IN
        /\ \E ok1 \in Outcomes(failures) :
           \E ok2 \in Outcomes(failures + (IF ok1 THEN 0 ELSE 1)) :
            /\ fs' = text_to_wav_files(fs, c.voice_id, c.engine, c.text, c.speed,
                                       ok1, ok2)
            /\ failures' = failures + text_to_wav_failed(fs, c.voice_id, c.engine,
                                                         c.text, c.speed, ok1, ok2)
            /\ rowFailures' = rowFailures + text_to_wav_failed(fs, c.voice_id,
                                              c.engine, c.text, c.speed, ok1, ok2)
        /\ synthCalls' = Append(synthCalls, SynthCall(c))
        /\ wavs' = Append(wavs, text_to_wav(c.voice_id, c.text, c.speed))
    /\ IF step = LessonCallCount
       THEN pc' = "templates" /\ step' = 0
       ELSE pc' = pc /\ step' = step + 1
    /\ UNCHANGED <<mode, verbose, voices, input, stale, rowIdx, dirs, silence,
                   pyramid_phrases, rowLog, mp3Requests, exitStatus>>

foreign_word_file == wavs[1]
english_word_file == wavs[2]
foreign_phrase_file == wavs[3]
\* slip: the slow template plays the clip at normal speed
foreign_phrase_slow_file_normal == wavs[3]
foreign_phrase_slow_file == wavs[4]
english_phrase_file == wavs[5]

\* the audio_files list of template t (lines 377-467)
audio_files(t) ==
    CASE t = 0 -> <<short_silence_file, foreign_word_file, medium_silence_file,
                    english_word_file, short_silence_file>>
      [] t = 1 -> <<short_silence_file, english_word_file, medium_silence_file,
                    foreign_word_file, short_silence_file>>
      [] t = 2 -> <<short_silence_file, foreign_word_file, medium_silence_file,
                    english_word_file, medium_silence_file, foreign_phrase_file,
                    long_silence_file, english_phrase_file, short_silence_file>>
      [] t = 3 -> <<short_silence_file, english_word_file, medium_silence_file,
                    foreign_word_file, medium_silence_file, english_phrase_file,
                    long_silence_file, foreign_phrase_file, short_silence_file>>
      [] t = 4 -> <<short_silence_file, english_phrase_file, short_silence_file>>
      [] t = 5 -> <<short_silence_file, foreign_phrase_file, short_silence_file>>
      [] t = 6 -> <<short_silence_file, foreign_phrase_file, long_silence_file>>
      [] t = 7 -> <<short_silence_file, foreign_phrase_slow_file, long_silence_file>>

\* the filename_format of template t for row r (lines 384-469)
filename_format(t, r) ==
    CASE t = 0 -> phrase_number(r) \o Sep \o foreign_word_text(r) \o Sep
                    \o english_word_text(r)
      [] t = 1 -> phrase_number(r) \o Sep \o english_word_text(r) \o Sep
                    \o foreign_word_text(r)
      [] t = 2 -> phrase_number(r) \o Sep \o foreign_word_text(r) \o Sep
                    \o english_word_text(r) \o Sep \o foreign_phrase_text(r)
                    \o Sep \o english_phrase_text(r)
      [] t = 3 -> phrase_number(r) \o Sep \o english_word_text(r) \o Sep
                    \o foreign_word_text(r) \o Sep \o english_phrase_text(r)
                    \o Sep \o foreign_phrase_text(r)
      [] t = 4 -> phrase_number(r) \o Sep \o english_phrase_text(r)
      [] t = 5 -> phrase_number(r) \o Sep \o foreign_phrase_text(r)
      [] t = 6 -> phrase_number(r) \o Sep \o foreign_phrase_text(r)
      [] t = 7 -> phrase_number(r) \o Sep \o foreign_phrase_text(r)

\* slip: the slow template is written to the directory of FP+Pause
template_dir_shared(t) == template_dirs[IF t = 7 THEN 7 ELSE t + 1]

\* the template_dir of template t (lines 386-470)
template_dir(t) == template_dirs[t + 1]

LastTemplate == 7

\* concat_wav_files' ffmpeg run succeeds
concat_wav_files_ok(files, files_in, output_filename, ok) ==
    concat_ok(WriteFile(files, concat_list_filename(output_filename),
                        concat_list(files_in)),
              concat_list(files_in), ok)

\* combine_audio_files_to_mp3 for template t: the files afterwards, and the
\* record of the call
combine_audio_files_to_mp3(files, t, files_in, name, dir, ok1, ok2, overwrite, keep_list) ==
    LET wav == combined_wav_filename(name)
        mp3 == combined_mp3_filename(name, dir)
        concatenated == concat_wav_files(files, files_in, wav, ok1, keep_list)
    IN  [files |-> convert_wav_to_mp3(concatenated, wav, mp3, ok2, overwrite),
         call  |-> [template |-> t, template_dir |-> dir, filename_format |-> name,
                    audio_files |-> files_in,
                    list |-> concat_list(files_in),
                    wav |-> wav,
                    mp3 |-> mp3,
                    concatOk |-> concat_wav_files_ok(files, files_in, wav, ok1),
                    mp3Ok |-> wav_to_mp3_ok(concatenated, wav, mp3, ok2, overwrite)]]

\* how many of the two commands of a combine_audio_files_to_mp3 call failed
CombineFailed(call) ==
    (IF call.concatOk THEN 0 ELSE 1) + (IF call.mp3Ok THEN 0 ELSE 1)

\* the answers the overwrite question of ffmpeg can get for an output
OverwriteAnswers(files, output_filename) ==
    IF output_filename \in DOMAIN files THEN BOOLEAN ELSE {TRUE}

\* slip: a template whose commands fail ends the row
AfterTemplateStopOnFailure(t, call) ==
    IF t = LastTemplate \/ ~call.concatOk \/ ~call.mp3Ok THEN "rows" ELSE "templates"

\* where lessons_from_csv goes after template t: straight on to the next
\* template, whatever the commands of this one did, and to the next row after
\* the last
AfterTemplate(t, call) == IF t = LastTemplate THEN "rows" ELSE "templates"

\* one template of lines 376-470: its list, its name and
\* combine_audio_files_to_mp3
CombineTemplate ==
    /\ pc = "templates"
    /\ \E ok1 \in Outcomes(failures) :
       \E ok2 \in Outcomes(failures + (IF ok1 THEN 0 ELSE 1)) :
       \E overwrite \in OverwriteAnswers(fs,
              combined_mp3_filename(filename_format(step, row), template_dir(step))) :
        LET done == combine_audio_files_to_mp3(fs, step, audio_files(step),
                        filename_format(step, row), template_dir(step),
                        ok1, ok2, overwrite, verbose)
        IN  /\ fs' = done.files
            /\ failures' = failures + CombineFailed(done.call)
            /\ rowFailures' = rowFailures + CombineFailed(done.call)
            /\ rowLog' = Append(rowLog, done.call)
            /\ mp3Requests' = Append(mp3Requests,
                                  [row |-> rowIdx, template |-> step,
                                   path |-> done.call.mp3])
            /\ pc' = AfterTemplate(step, done.call)
            /\ step' = IF AfterTemplate(step, done.call) = "templates"
                       THEN step + 1 ELSE 0
    /\ UNCHANGED <<mode, verbose, voices, input, stale, rowIdx, dirs, silence,
                   wavs, pyramid_phrases, synthCalls, exitStatus>>

(***************************************************************************)
(* Pyramid mode: pyramid_from_csv                                          *)
(***************************************************************************)
\* slip: empty columns are not skipped
RECURSIVE CollectPiecesKeepEmpty(_, _, _)
CollectPiecesKeepEmpty(r, column_count, pieces) ==
    IF column_count >= Len(r) THEN pieces
    ELSE IF column_count = 0 THEN CollectPiecesKeepEmpty(r, column_count + 1, pieces)
    ELSE CollectPiecesKeepEmpty(r, column_count + 1, Append(pieces, r[column_count + 1]))

\* lines 544-563: the columns after the first that are not empty, in order
RECURSIVE CollectPieces(_, _, _)
CollectPieces(r, column_count, pieces) ==
    IF column_count >= Len(r) THEN pieces
    ELSE IF column_count = 0 THEN CollectPieces(r, column_count + 1, pieces)
    ELSE IF r[column_count + 1] # <<>>
         THEN CollectPieces(r, column_count + 1, Append(pieces, r[column_count + 1]))
         ELSE CollectPieces(r, column_count + 1, pieces)

phrase_pieces(r) == CollectPieces(r, 0, <<>>)

\* lines 538, 547-549: the first column, or 0 for a row without columns
pyramid_phrase_number(r) == IF Len(r) = 0 THEN IntToStr(0) ELSE r[1]

\* lines 502-510: the loop of phrase_pieces_to_pyramid_phrases
RECURSIVE PyramidLoop(_, _, _)
PyramidLoop(pieces, pyramid_phrase, phrases) ==
    IF Len(pieces) = 0 THEN phrases
    ELSE PyramidLoop(Tail(pieces), pyramid_phrase \o Head(pieces),
                     Append(phrases, pyramid_phrase \o Head(pieces)))

phrase_pieces_to_pyramid_phrases(pieces) == PyramidLoop(pieces, <<>>, <<>>)

\* lines 582-585
pyramid_filename_format(r) ==
    pyramid_phrase_number(r) \o Sep \o Join(phrase_pieces(r), <<" ">>) \o Sep
        \o <<"Pyramid">>

\* lines 524-567: the next row is read, its pieces collected and its
\* cumulative phrases built
PyramidReadRow ==
    /\ pc = "rows"
    /\ mode = "pyramid"
    /\ rowIdx < Len(input)
    /\ rowIdx' = rowIdx + 1
    /\ pyramid_phrases' = phrase_pieces_to_pyramid_phrases(phrase_pieces(input[rowIdx + 1]))
    /\ wavs' = <<>>
    /\ synthCalls' = <<>>
    /\ rowLog' = <<>>
    /\ rowFailures' = 0
    /\ step' = 1
    /\ pc' = IF Len(phrase_pieces(input[rowIdx + 1])) = 0
             THEN "pyramid_combine" ELSE "pyramid_clips"
    /\ UNCHANGED <<mode, verbose, voices, input, stale, dirs, fs, silence,
                   mp3Requests, failures, exitStatus>>

\* lines 571-577: one pass of the loop over the cumulative phrases
PyramidTextToWav ==
    /\ pc = "pyramid_clips"
    /\ LET c == [voice_id |-> voices.foreign_voice_id,
                 engine |-> voices.foreign_voice_engine,
                 text |-> pyramid_phrases[step], speed |-> voices.voice_speed]
       IN
        /\ \E ok1 \in Outcomes(failures) :
           \E ok2 \in Outcomes(failures + (IF ok1 THEN 0 ELSE 1)) :
            /\ fs' = text_to_wav_files(fs, c.voice_id, c.engine, c.text, c.speed,
                                       ok1, ok2)
            /\ failures' = failures + text_to_wav_failed(fs, c.voice_id, c.engine,
                                                         c.text, c.speed, ok1, ok2)
            /\ rowFailures' = rowFailures + text_to_wav_failed(fs, c.voice_id,
                                              c.engine, c.text, c.speed, ok1, ok2)
        /\ synthCalls' = Append(synthCalls, SynthCall(c))
        /\ wavs' = wavs \o <<text_to_wav(c.voice_id, c.text, c.speed),
                             short_silence_file>>
    /\ IF step = Len(pyramid_phrases)
       THEN pc' = "pyramid_combine" /\ step' = 0
       ELSE pc' = pc /\ step' = step + 1
    /\ UNCHANGED <<mode, verbose, voices, input, stale, rowIdx, dirs, silence,
                   pyramid_phrases, rowLog, mp3Requests, exitStatus>>

PyramidTemplate == 8

\* lines 582-586: the row's one lesson
PyramidCombine ==
    /\ pc = "pyramid_combine"
    /\ \E ok1 \in Outcomes(failures) :
       \E ok2 \in Outcomes(failures + (IF ok1 THEN 0 ELSE 1)) :
       \E overwrite \in OverwriteAnswers(fs,
              combined_mp3_filename(pyramid_filename_format(row), template_8_dir)) :
        LET done == combine_audio_files_to_mp3(fs, PyramidTemplate, wavs,
                        pyramid_filename_format(row), template_8_dir,
                        ok1, ok2, overwrite, verbose)
        IN  /\ fs' = done.files
            /\ failures' = failures + CombineFailed(done.call)
            /\ rowFailures' = rowFailures + CombineFailed(done.call)
            /\ rowLog' = Append(rowLog, done.call)
            /\ mp3Requests' = Append(mp3Requests,
                                  [row |-> rowIdx, template |-> PyramidTemplate,
                                   path |-> done.call.mp3])
    /\ pc' = "pyramid_tail"
    /\ UNCHANGED <<mode, verbose, voices, input, stale, rowIdx, step, dirs,
                   silence, wavs, pyramid_phrases, synthCalls, exitStatus>>

\* lines 626-634 on a row of at least five columns: the assignments succeed
PyramidRowDone ==
    /\ pc = "pyramid_tail"
    /\ Len(row) >= RequiredColumns
    /\ pc' = "rows"
    /\ UNCHANGED <<rowFailures, mode, verbose, voices, input, stale, rowIdx, step, dirs, fs,
                   silence, wavs, pyramid_phrases, synthCalls, rowLog,
                   mp3Requests, failures, exitStatus>>

\* lines 626-634 on a row of fewer than five columns: phrase[k] raises
\* IndexError, which nothing catches
PyramidIndexError ==
    /\ pc = "pyramid_tail"
    /\ Len(row) < RequiredColumns
    /\ pc' = "crashed"
    /\ exitStatus' = 1
    /\ UNCHANGED <<rowFailures, mode, verbose, voices, input, stale, rowIdx, step, dirs, fs,
                   silence, wavs, pyramid_phrases, synthCalls, rowLog,
                   mp3Requests, failures>>

(***************************************************************************)
(* main, lines 659-667                                                     *)
(***************************************************************************)
Cleanup ==
    /\ pc = "cleanup"
    /\ dirs' = IF verbose THEN dirs ELSE rmtree_dirs(dirs, WorkspacePath)
    /\ fs' = IF verbose THEN fs ELSE rmtree_files(fs, WorkspacePath)
    /\ pc' = "done"
    /\ exitStatus' = 0
    /\ UNCHANGED <<rowFailures, mode, verbose, voices, input, stale, rowIdx, step, silence,
                   wavs, pyramid_phrases, synthCalls, rowLog, mp3Requests,
                   failures>>

Next ==
    \/ CreateOutputDirectories
    \/ CreateSilence
    \/ EndOfInput
    \/ ReadRow
    \/ ReadRowIndexError
    \/ TextToWav
    \/ CombineTemplate
    \/ PyramidReadRow
    \/ PyramidTextToWav
    \/ PyramidCombine
    \/ PyramidRowDone
    \/ PyramidIndexError
    \/ Cleanup

Spec == Init /\ [][Next]_vars

(***************************************************************************)
(* The pyramid phrases of one row, for rows over a pool of pieces          *)
(***************************************************************************)
MaxPieces == 3

PiecePool == {<<>>, <<"I", " ">>, <<"a", "m", " ">>, <<"g", "o">>}

PyramidRows == {<< <<"1">> >> \o pieces : pieces \in SeqsUpTo(PiecePool, MaxPieces)}

\* pyramid_from_csv has made its silence clip and is about to read the one
\* row of its input
InitPyramidPhrases ==
    /\ mode = "pyramid"
    /\ verbose = FALSE
    /\ voices \in VoiceConfigs
    /\ voices.voice_speed = DefaultSpeed
    /\ input \in {<<r>> : r \in PyramidRows}
    /\ stale = FALSE
    /\ pc = "rows"
    /\ rowIdx = 0
    /\ step = 0
    /\ dirs = OutputDirectories
    /\ fs = create_silent_wav_file(NoFiles, "1.0", TRUE)
    /\ silence = <<silence_filename("1.0")>>
    /\ wavs = <<>>
    /\ pyramid_phrases = <<>>
    /\ synthCalls = <<>>
    /\ rowLog = <<>>
    /\ mp3Requests = <<>>
    /\ failures = 0
    /\ rowFailures = 0
    /\ exitStatus = "running"

NextPyramidPhrases == PyramidReadRow

SpecPyramidPhrases == InitPyramidPhrases /\ [][NextPyramidPhrases]_vars

(***************************************************************************)
(* Properties                                                              *)
(***************************************************************************)
\* the cache key of a synthesis call
CacheKey(c) == <<c.voice_id, c.engine, c.speed, c.text>>

\* C1: while a lesson row is processed, create_pcm_from_ssml is called at
\* most once for every (voiceId, engine, speedPercent, text) key: no two
\* calls made for the row have the same key.
C1_SynthesisOncePerKey ==
    mode = "lessons" =>
        \A i, j \in 1..Len(synthCalls) :
            i # j => CacheKey(synthCalls[i]) # CacheKey(synthCalls[j])

\* the recipes of the eight templates
Recipe ==
    << <<"short", "FW", "medium", "EW", "short">>,
       <<"short", "EW", "medium", "FW", "short">>,
       <<"short", "FW", "medium", "EW", "medium", "FP", "long", "EP", "short">>,
       <<"short", "EW", "medium", "FW", "medium", "EP", "long", "FP", "short">>,
       <<"short", "EP", "short">>,
       <<"short", "FP", "short">>,
       <<"short", "FP", "long">>,
       <<"short", "slow FP", "long">> >>

\* the clip a recipe entry stands for, for row r
RecipeClip(entry, r) ==
    CASE entry = "short"   -> silence_filename("1.0")
      [] entry = "medium"  -> silence_filename("1.5")
      [] entry = "long"    -> silence_filename("4")
      [] entry = "FW"      -> text_to_wav(voices.foreign_voice_id, r[2], voices.voice_speed)
      [] entry = "EW"      -> text_to_wav(voices.english_voice_id, r[3], voices.voice_speed)
      [] entry = "FP"      -> text_to_wav(voices.foreign_voice_id, r[4], voices.voice_speed)
      [] entry = "slow FP" -> text_to_wav(voices.foreign_voice_id, r[4], SlowSpeed)
      [] entry = "EP"      -> text_to_wav(voices.english_voice_id, r[5], voices.voice_speed)

RecipeClips(t, r) == [k \in 1..Len(Recipe[t + 1]) |-> RecipeClip(Recipe[t + 1][k], r)]

\* C2: for every template assembled for a lesson row, the list handed to
\* concatenation is the template's recipe in order, silence clips repeated
\* as the recipe repeats them, and the concat list that is written names the
\* same files in the same order (in verbose mode the list stays on disk).
C2_PlaylistIsRecipe ==
    mode = "lessons" =>
        \A i \in 1..Len(rowLog) :
            /\ rowLog[i].template = i - 1
            /\ rowLog[i].audio_files = RecipeClips(i - 1, row)
            /\ Len(rowLog[i].list) = Len(Recipe[i])
            /\ concat_inputs(rowLog[i].list) = RecipeClips(i - 1, row)
            /\ (verbose /\ i = Len(rowLog)) =>
                   fs[concat_list_filename(rowLog[i].wav)] = rowLog[i].list

\* all eight templates of a row with a quote in its text have been assembled
C2_Witness ==
    /\ mode = "lessons"
    /\ rowIdx > 0
    /\ row = RowC
    /\ Len(rowLog) = TemplateCount
    /\ verbose

\* the sequence numbers of the input are pairwise distinct
DistinctSequenceNumbers ==
    \A i, j \in 1..Len(input) : i # j => input[i][1] # input[j][1]

\* C3: a finished lesson run over N rows with pairwise distinct sequence
\* numbers has requested exactly 8*N MP3 paths, one per (row, template)
\* pair, each under its template's directory, all distinct; and every one
\* exists when no command failed.
C3_OutputPathsDistinct ==
    (mode = "lessons" /\ pc = "done" /\ DistinctSequenceNumbers) =>
        /\ Len(mp3Requests) = TemplateCount * Len(input)
        /\ \A n \in 1..Len(input) : \A t \in 0..LastTemplate :
               \E q \in 1..Len(mp3Requests) :
                   mp3Requests[q].row = n /\ mp3Requests[q].template = t
        /\ \A q \in 1..Len(mp3Requests) :
               /\ IsUnder(mp3Requests[q].path,
                          <<output_dir, template_dirs[mp3Requests[q].template + 1]>>)
               /\ failures = 0 => mp3Requests[q].path \in DOMAIN fs
        /\ \A p, q \in 1..Len(mp3Requests) :
               p # q => mp3Requests[p].path # mp3Requests[q].path

\* a lesson run over two rows with distinct sequence numbers has finished
\* without a failed command
C3_Witness ==
    /\ mode = "lessons"
    /\ pc = "done"
    /\ Len(input) = 2
    /\ DistinctSequenceNumbers
    /\ failures = 0

\* the text fields a template's file name is made of, as columns of the row
DesignatedFields ==
    << <<2, 3>>, <<3, 2>>, <<2, 3, 4, 5>>, <<3, 2, 5, 4>>, <<5>>, <<4>>, <<4>>, <<4>> >>

\* "{sequenceNumber} - " and the designated fields joined with " - ", ".mp3"
ExpectedFilename(r, t) ==
    r[1] \o Sep
        \o Join([k \in 1..Len(DesignatedFields[t + 1]) |-> r[DesignatedFields[t + 1][k]]],
                Sep)
        \o <<".mp3">>

\* C4: every MP3 path requested in lesson mode is the template's directory
\* followed by "{sequenceNumber} - ", the template's text fields joined with
\* " - " and ".mp3": a function of the row and the template alone, whatever
\* was processed before and whatever a previous run left.
C4_FilenameDeterministic ==
    mode = "lessons" =>
        \A q \in 1..Len(mp3Requests) :
            mp3Requests[q].path =
                <<output_dir, template_dirs[mp3Requests[q].template + 1]>>
                    \o ExpectedFilename(input[mp3Requests[q].row], mp3Requests[q].template)

\* the second row's lessons have been named after the first row's
C4_Witness ==
    /\ mode = "lessons"
    /\ Len(mp3Requests) = 2 * TemplateCount
    /\ input[1] # input[2]

NonEmptyPiece(piece) == piece # <<>>

IsPrefix(a, b) == Len(a) <= Len(b) /\ SubSeq(b, 1, Len(a)) = a

RECURSIVE PyramidPlaylist(_)
PyramidPlaylist(phrases) ==
    IF Len(phrases) = 0 THEN <<>>
    ELSE <<text_to_wav(voices.foreign_voice_id, Head(phrases), voices.voice_speed),
           silence_filename("1.0")>> \o PyramidPlaylist(Tail(phrases))

\* C6: in pyramid mode every row, however few columns it has, is processed
\* in input order and gives one lesson under Pyramid/ whose playlist is its
\* phrases' clips, each followed by the short silence; the run does not abort
\* and ends normally after the last row.
C6_PyramidRunCompletes ==
    mode = "pyramid" =>
        /\ pc # "crashed"
        /\ \A q \in 1..Len(mp3Requests) :
               /\ mp3Requests[q].row = q
               /\ IsUnder(mp3Requests[q].path, <<output_dir, template_8_dir>>)
        /\ \A i \in 1..Len(rowLog) :
               rowLog[i].audio_files = PyramidPlaylist(pyramid_phrases)
        /\ pc = "done" => Len(mp3Requests) = Len(input)

\* a command of the row being processed has failed
CommandFailedInRow == rowFailures > 0

\* C7: once a synthesis or conversion command has failed while a row is
\* processed, the run is over in a failed state with a non-zero status: it
\* is at no later step, row or command.
C7_ExternalFailureIsFatal ==
    CommandFailedInRow => (pc = "crashed" /\ exitStatus = 1)

\* a converter command of template i of the row has failed
TemplateFailed(i) == ~rowLog[i].concatOk \/ ~rowLog[i].mp3Ok

\* C8: in lesson mode, a template whose converter commands succeed has its
\* MP3, whatever happened to the other templates of the row; and when a
\* template's converter command has failed, the row is not left before all
\* eight templates have been attempted.
C8_TemplatesIndependent ==
    mode = "lessons" =>
        /\ \A i \in 1..Len(rowLog) :
               ~TemplateFailed(i) => rowLog[i].mp3 \in DOMAIN fs
        /\ (pc \notin {"clips", "templates"} /\ \E i \in 1..Len(rowLog) : TemplateFailed(i))
               => Len(rowLog) = TemplateCount

\* a template's concatenation failed, and a later template of the same row
\* has produced its MP3
C8_Witness ==
    /\ mode = "lessons"
    /\ Len(rowLog) = TemplateCount
    /\ \E i \in 1..Len(rowLog) : \E j \in (i + 1)..Len(rowLog) :
           /\ ~rowLog[i].concatOk
           /\ ~TemplateFailed(j)
           /\ rowLog[j].mp3 \in DOMAIN fs

\* the MP3 paths requested for row n
RequestsOfRow(n) == {q \in 1..Len(mp3Requests) : mp3Requests[q].row = n}

\* C9: when a lesson run is over, every row with fewer than five columns has
\* been skipped without a lesson, and every row with five columns, also one
\* that comes after a short row, has its eight lessons.
C9_ShortRowSkipped ==
    (mode = "lessons" /\ pc \in {"done", "crashed"}) =>
        \A n \in 1..Len(input) :
            Cardinality(RequestsOfRow(n)) =
                (IF Len(input[n]) < RequiredColumns THEN 0 ELSE TemplateCount)

\* C10: the workspace directory exists as long as a row or a template is
\* left to process; when the run is over it is gone unless verbose is set,
\* and with verbose set it and the clips in it are kept.
C10_WorkspaceLifecycle ==
    /\ pc \in {"silence", "rows", "clips", "templates", "pyramid_clips",
               "pyramid_combine", "pyramid_tail", "cleanup"}
           => WorkspacePath \in dirs
    /\ (pc \in {"done", "crashed"} /\ ~verbose) => WorkspacePath \notin dirs
    /\ (pc \in {"done", "crashed"} /\ verbose) =>
           /\ WorkspacePath \in dirs
           /\ \A i \in 1..Len(silence) : failures = 0 => silence[i] \in DOMAIN fs

\* the row without the empty columns at its end that lie beyond the first
\* `required` columns
RECURSIVE StripTrailingEmpty(_, _)
StripTrailingEmpty(r, required) ==
    IF Len(r) > required /\ r[Len(r)] = <<>>
    THEN StripTrailingEmpty(SubSeq(r, 1, Len(r) - 1), required)
    ELSE r

\* C11: the synthesis calls made for a row are those of the row without its
\* trailing empty columns: in lesson mode the five calls of the columns after
\* the sequence number, in pyramid mode one call per non-empty piece, none
\* of them with empty text.
C11_TrailingEmptyColumnsIgnored ==
    /\ (mode = "lessons" /\ pc = "templates") =>
           synthCalls = [k \in 1..LessonCallCount |->
                            SynthCall(LessonCall(k, StripTrailingEmpty(row, RequiredColumns)))]
    /\ (mode = "pyramid" /\ pc \in {"pyramid_combine", "pyramid_tail"}) =>
           LET kept == SelectSeq(Tail(StripTrailingEmpty(row, 1)), NonEmptyPiece)
           IN  /\ Len(synthCalls) = Len(kept)
               /\ \A i \in 1..Len(synthCalls) :
                      /\ synthCalls[i].text = ConcatAll(SubSeq(kept, 1, i))
                      /\ synthCalls[i].text # <<>>

\* the clips of a pyramid row whose last column is empty have been made
C11_Witness ==
    /\ mode = "pyramid"
    /\ pc = "pyramid_combine"
    /\ Len(row) > RequiredColumns
    /\ row[Len(row)] = <<>>
    /\ Len(synthCalls) = Len(row) - 2

\* what a markup parser gives for a payload that is not well-formed
NotWellFormed == <<"not well-formed">>

\* the text content of an SSML document, as a markup parser reads it: tags
\* and attribute values are not text; outside tags "<" opens markup and "&"
\* opens a reference, and neither is closed by the text that follows here
RECURSIVE MarkupTextContent(_, _, _)
MarkupTextContent(ssml, in_attribute, content) ==
    IF Len(ssml) = 0 THEN content
    ELSE IF in_attribute
         THEN MarkupTextContent(Tail(ssml), Head(ssml) # "%'>", content)
    ELSE IF Head(ssml) = "<prosody rate='"
         THEN MarkupTextContent(Tail(ssml), TRUE, content)
    ELSE IF Head(ssml) \in {"<speak>", "</prosody>", "</speak>"}
         THEN MarkupTextContent(Tail(ssml), FALSE, content)
    ELSE IF Head(ssml) \in {"<", "&"}
         THEN NotWellFormed
    ELSE MarkupTextContent(Tail(ssml), FALSE, Append(content, Head(ssml)))

\* C12: the SSML payload of every synthesis call, parsed back as markup, has
\* the text of the call as its text content, also when the text holds "<",
\* ">", "&" or a quote.
C12_MarkupRoundTrip ==
    \A i \in 1..Len(synthCalls) :
        MarkupTextContent(synthCalls[i].ssml, FALSE, <<>>) = synthCalls[i].text

\* C13: in lesson mode, two clip requests of a row whose (voiceId, engine,
\* speedPercent, text) keys differ are given different clip files, and when
\* the row's clips have been made without a failed command every clip file
\* still holds the speech of the request it was returned for.
C13_ClipIdentityFollowsKey ==
    mode = "lessons" =>
        /\ \A i, j \in 1..Len(synthCalls) :
               CacheKey(synthCalls[i]) # CacheKey(synthCalls[j]) => wavs[i] # wavs[j]
        /\ (pc = "templates" /\ rowFailures = 0) =>
               \A k \in 1..Len(synthCalls) :
                   fs[wavs[k]] = <<Speech(synthCalls[k].voice_id, synthCalls[k].engine,
                                          synthCalls[k].ssml)>>

\* what ffmpeg's concatenation of a playlist plays, from the files as they are
PlaylistAudio(files, playlist) ==
    IF \A k \in 1..Len(playlist) : playlist[k] \in DOMAIN files
    THEN ConcatAll([k \in 1..Len(playlist) |-> files[playlist[k]]])
    ELSE <<"nothing">>

\* C14: while the files of the workspace are there, every MP3 written for a
\* template of the row plays the concatenation of that template's own
\* playlist, also in a run in which a concatenation has failed.
C14_Mp3FromOwnPlaylist ==
    pc # "done" =>
        \A i \in 1..Len(rowLog) :
            rowLog[i].mp3Ok =>
                fs[rowLog[i].mp3] = PlaylistAudio(fs, rowLog[i].audio_files)

====
